---- MODULE Spec2Model ----
(***************************************************************************)
(* Version-gated incremental sync of the dataset collectors               *)
(* eurostat_collect (src/eurostat_waste_collect.py) and unido_collect     *)
(* (src/unido_collect.py): for each configured dataset the collector      *)
(* derives the online version, looks the recorded version up in the       *)
(* resource catalog, and on change downloads data and metadata and        *)
(* commits the resource descriptor.                                       *)
(***************************************************************************)
EXTENDS Integers, Sequences, FiniteSets, TLC

VARIABLES
    variant,        \* which collector runs: "eurostat" or "unido"
    remote,         \* dataset -> text of the remote version field
    catalog,        \* resource key -> latest committed data_version
    cwd,            \* working directory '.': file name -> content
    store,          \* files this pass wrote below the storage locations
    status,         \* "idle", "running", "returned" or "raised"
    result,         \* the boolean the last normal return gave
    pc,             \* position of the running pass inside the loop body
    i,              \* index of the current dataset in the configured list
    m,              \* index of the next auxiliary metadata call
    resource,       \* the descriptor of the current dataset
    online_version, \* local of the loop body
    code_list,      \* local of the loop body
    data_description, \* local of the loop body
    latest_version, \* local of the loop body
    did_update,     \* local of the collector
    calls,          \* calls made in this pass, in order
    decided,        \* per dataset of this pass: the decision taken
    commits,        \* descriptors handed to add_or_update_resource_list
    failed,         \* <<dataset, step>> at which this pass raised
    faults,         \* number of failures injected so far
    changes,        \* number of remote changes so far
    unchanged,      \* no remote version changed since the last pass began
    stable,         \* the pass before returned and no remote changed since
    probe           \* the last direct call of a helper: arguments and outcome

vars == <<variant, remote, catalog, cwd, store, status, result, pc, i, m,
          resource, online_version, code_list, data_description,
          latest_version, did_update, calls, decided, commits, failed,
          faults, changes, unchanged, stable, probe>>

(***************************************************************************)
(* Bounds of the model.                                                    *)
(***************************************************************************)
NumDatasets == 2
MaxChanges == 1
MaxFaults == 1
MaxElements == 3

(***************************************************************************)
(* Values.                                                                 *)
(***************************************************************************)
\* Python None, as a value no version stamp can take
None == "<None>"

\* the resource catalog holds no record under a key
NotFound == "<NotFound>"

\* content of a file that does not exist
NoFile == <<"<no file>">>

\* content of an index listing ({type}.xml, {type}.csv)
IndexDoc == <<"<index>">>

\* a structure document that is not well-formed XML
Malformed == <<"<malformed>">>

\* if x: of Python, for None and for strings
Truthy(x) == x # None /\ x # ""

\* "2023-08-10T00:00:00Z", "2023-08-11T00:00:00Z" and "T00:00:00Z" as the
\* text of the header field root[0][2] of a conceptscheme document
Prepared1 == <<"2","0","2","3","-","0","8","-","1","0","T","0","0",":","0","0",":","0","0","Z">>
Prepared2 == <<"2","0","2","3","-","0","8","-","1","1","T","0","0",":","0","0",":","0","0","Z">>
PreparedNoDate == <<"T","0","0",":","0","0",":","0","0","Z">>

\* the header texts of the form YYYY-MM-DDThh:mm:ssZ a structure document
\* is served with when get_data_version is called on its own
Years == {<<"2","0","2","3">>, <<"1","9","9","9">>}
Months == {<<"0","8">>, <<"1","2">>}
Days == {<<"1","0">>, <<"3","1">>}
Times == {<<"0","0",":","0","0",":","0","0">>, <<"2","3",":","5","9",":","5","9">>}
Timestamp(y, mo, d, t) == y \o <<"-">> \o mo \o <<"-">> \o d \o <<"T">> \o t \o <<"Z">>
Timestamps ==
    {Timestamp(y, mo, d, t) : y \in Years, mo \in Months, d \in Days, t \in Times}

\* production_year of a UNIDO dataset document: "2023", "2024" and ""
Year1 == <<"2","0","2","3">>
Year2 == <<"2","0","2","4">>
YearEmpty == <<>>

\* the texts the remote version field of a dataset can hold
RemoteTexts(v) ==
    IF v = "eurostat" THEN {Prepared1, Prepared2, PreparedNoDate}
    ELSE {Year1, Year2, YearEmpty}

\* the text every dataset's version field holds before the first pass
FirstText(v) == IF v = "eurostat" THEN Prepared1 ELSE Year1

\* the characters of a text joined into one string
RECURSIVE Join(_)
Join(s) == IF s = <<>> THEN "" ELSE Head(s) \o Join(Tail(s))

\* text.split('T')[0]: the part before the first 'T'
RECURSIVE SplitT0(_)
SplitT0(s) ==
    IF s = <<>> \/ Head(s) = "T" THEN <<>>
    ELSE <<Head(s)>> \o SplitT0(Tail(s))

\* text.replace('-', '', 1): only the first '-' removed
RECURSIVE RemoveFirstDash(_)
RemoveFirstDash(s) ==
    IF s = <<>> THEN <<>>
    ELSE IF Head(s) = "-" THEN Tail(s)
    ELSE <<Head(s)>> \o RemoveFirstDash(Tail(s))

\* text.replace('-', ''): every '-' removed
RECURSIVE RemoveDashes(_)
RemoveDashes(s) ==
    IF s = <<>> THEN <<>>
    ELSE IF Head(s) = "-" THEN RemoveDashes(Tail(s))
    ELSE <<Head(s)>> \o RemoveDashes(Tail(s))

\* (root[0][2].text).split('T')[0].replace('-','')
VersionOfText(text) == Join(RemoveDashes(SplitT0(text)))

(***************************************************************************)
(* Configuration of the two collectors.                                    *)
(***************************************************************************)
\* the head of the module-level list datasets
eurostat_datasets == <<"ENPS_ENV_WASGENH", "ENPS_ENV_WASGENM", "ENPS_ENV_WASTRT", "ENPS_ENV_WAT_ABS">>

metadata_types == <<"dataflow", "codelist", "conceptscheme">>

\* names of the required_resources of unido_collect
unido_datasets == <<"INDSTAT", "IDSB">>

Min(a, b) == IF a < b THEN a ELSE b

\* the configured list a pass iterates over
Datasets(v) ==
    IF v = "eurostat"
    THEN SubSeq(eurostat_datasets, 1, Min(NumDatasets, Len(eurostat_datasets)))
    ELSE unido_datasets

Range(s) == {s[k] : k \in 1..Len(s)}

DatasetSet(v) == Range(Datasets(v))

\* name= of the DataResource of a dataset
ResourceName(v, d) == IF v = "eurostat" THEN "eurostat_waste_" \o d ELSE d

\* task_name= of the DataResource
TaskName(v) == IF v = "eurostat" THEN "eurostat_waste_collect" ELSE "unido"

\* the (name, stage, task_name) key of a dataset's resource
Key(v, d) == <<ResourceName(v, d), "collect", TaskName(v)>>

Keys(v) == {Key(v, d) : d \in DatasetSet(v)}

\* the placeholder data_version a fresh descriptor is built with
InitialVersion(v) == IF v = "eurostat" THEN "00000000" ELSE None

\* the sentinel assigned when the online version is falsy
Sentinel(v) == IF v = "eurostat" THEN "00000000" ELSE "YYYY"

\* location of a fresh descriptor
InitialLocation(v, d) ==
    IF v = "eurostat"
    THEN "collect/eurostat/" \o d \o "/" \o InitialVersion(v)
    ELSE "collect/unido/" \o d \o "/{version}"

\* one element of a structure document: its tag and the ids of its
\* children, in document order
Element(tag, children) == [tag |-> tag, children |-> children]

\* the elements structure documents are made of, and the documents of up
\* to MaxElements elements (the elements at any depth, in document order)
ElementSet ==
    {Element(t, c) : t \in {"Enumeration", "LocalRepresentation"},
                     c \in {<<"GEO", "UNIT">>, <<"FREQ">>}}
Bodies == UNION {[1..n -> ElementSet] : n \in 0..MaxElements}

\* the ids of the Enumeration elements' first children, each id once
RECURSIVE EnumerationIdsDistinct(_)
EnumerationIdsDistinct(body) ==
    IF body = <<>> THEN <<>>
    ELSE LET rest == EnumerationIdsDistinct(Tail(body))
             id == Head(body).children[1]
         IN  IF Head(body).tag = "Enumeration" /\ id \notin Range(rest)
             THEN <<id>> \o rest
             ELSE rest

\* for item in root.findall(".//s:Enumeration", NS):
\*     ids.append(item[0].get('id'))
RECURSIVE EnumerationIds(_)
EnumerationIds(body) ==
    IF body = <<>> THEN <<>>
    ELSE (IF Head(body).tag = "Enumeration"
          THEN <<Head(body).children[1]>>
          ELSE <<>>) \o EnumerationIds(Tail(body))

\* the elements of the conceptscheme document of a dataset
StructureBody(d) ==
    IF d = eurostat_datasets[1]
    THEN <<Element("Enumeration", <<"FREQ">>),
           Element("LocalRepresentation", <<"FREQ">>),
           Element("Enumeration", <<"GEO", "UNIT">>)>>
    ELSE <<Element("Enumeration", <<"GEO", "UNIT">>),
           Element("Enumeration", <<"GEO", "UNIT">>)>>

\* the column ids get_data_columns finds in the document of a dataset
Enumerations(d) == EnumerationIds(StructureBody(d))

(***************************************************************************)
(* The working directory and the helpers that use it.                      *)
(***************************************************************************)
IndexCsv(type) == type \o ".csv"
IndexXml(type) == type \o ".xml"
DimXml(id) == "dim_" \o id \o ".xml"
DimZip(id) == "dim_" \o id \o ".zip"

\* the files the collector can create in '.'
WorkFiles(v) ==
    {IndexCsv(t) : t \in Range(metadata_types)}
        \cup {IndexXml(t) : t \in Range(metadata_types)}
        \cup {DimXml(d) : d \in DatasetSet(v)}
        \cup {DimZip(d) : d \in DatasetSet(v)}

\* what a call can meet: "ok", or the one step of it that fails
MetadataOutcomes ==
    {"ok", "http_error", "write_error", "convert_error", "no_row",
     "request_error", "zip_error", "malformed"}

\* the XML declaration toprettyxml puts in front of a document
XmlDeclaration == "<?xml version=\"1.0\" ?>"

\* prettify_data(data, ".xml"): a document that does not parse is returned
\* unmodified; a well-formed one is written out again behind an XML
\* declaration, its elements and their text kept
Prettify(doc) == IF doc = Malformed THEN doc ELSE <<XmlDeclaration>> \o doc

\* an Enumeration element without a child element, as it stands in a
\* document
ChildlessEnumeration == "<Enumeration/>"

\* a document with the header text of doc whose structure, which follows
\* the header, holds an Enumeration element without a child
WithChildless(doc) == doc \o <<ChildlessEnumeration>>

\* item[0] of an Enumeration element of the parsed content does not exist
HasChildless(content) ==
    \E k \in DOMAIN content : content[k] = ChildlessEnumeration

\* ET.parse(...).getroot()[0][2].text: the header text of a parsed
\* document, the declaration and the structure elements not being part of
\* the text
HeaderText(content) ==
    LET tree == IF content # <<>> /\ Head(content) = XmlDeclaration
                THEN Tail(content) ELSE content
    IN  IF tree # <<>> /\ tree[Len(tree)] = ChildlessEnumeration
        THEN SubSeq(tree, 1, Len(tree) - 1)
        ELSE tree

\* xml2csv_metadata(save_dir, save_dir, metadata_type): writes {type}.csv
Xml2Csv(fs, type) == [fs EXCEPT ![IndexCsv(type)] = IndexDoc]

\* an exception that "except Exception" and "except
\* requests.RequestException" do not catch: KeyboardInterrupt and the other
\* exceptions derived from BaseException only
Interrupt == "interrupt"

\* names of the steps a helper performs, as they are recorded
Opened(f) == "open " \o f
Written(f) == "write " \o f
Removed(f) == "os.remove " \o f
Parsed(f) == "ET.parse " \o f

\* an HTTP failure that is logged and then returned from
HttpFailureReturned == FALSE

\* "raise" in the except branch of the index request
HttpFailureReraised == TRUE

\* get_datasets_info(metadata_type, '.')
GetDatasetsInfo(fs, type, o) ==
    IF o = Interrupt
    THEN [fs |-> fs, raised |-> TRUE, steps |-> <<"requests.get">>]
    ELSE IF o = "http_error"
    THEN [fs |-> fs, raised |-> HttpFailureReraised,
          steps |-> <<"requests.get", "logger.error">>]
    ELSE IF o = "write_error"
    THEN [fs |-> fs, raised |-> FALSE,
          steps |-> <<"requests.get", "prettify_data", Opened(IndexXml(type)),
                      "logger.error">>]
    ELSE LET written == [fs EXCEPT ![IndexXml(type)] = IndexDoc]
             done == <<"requests.get", "prettify_data", Opened(IndexXml(type)),
                       Written(IndexXml(type)), "xml2csv_metadata">>
         IN  IF o = "convert_error"
             THEN [fs |-> written, raised |-> TRUE, steps |-> done]
             ELSE [fs |-> Xml2Csv(written, type), raised |-> FALSE,
                   steps |-> done]

\* save_prettified_xml_to_zip(response.content, zip_filepath, xml_filename)
\* with zip_filepath in save_dir
SavePrettifiedXmlToZip(fs, st, id, save_dir, doc, o) ==
    IF o = "zip_error"
    THEN [fs |-> fs, st |-> st,
          steps |-> <<"prettify_data", "ZipFile", "logger.error">>]
    ELSE IF save_dir = "."
    THEN [fs |-> [fs EXCEPT ![DimZip(id)] = Prettify(doc)], st |-> st,
          steps |-> <<"prettify_data", "ZipFile", Written(DimZip(id)),
                      "logger.info">>]
    ELSE [fs |-> fs, st |-> st \cup {<<save_dir, DimZip(id)>>},
          steps |-> <<"prettify_data", "ZipFile", Written(DimZip(id)),
                      "logger.info">>]

\* a get_metadata whose except branch logs and raises again
MetadataFailureReraised == FALSE

\* "except Exception as e: logger.error(...)" around the body of
\* get_metadata
MetadataFailureCaught == TRUE

\* a missing row that is only logged, the request being made all the same
NoRowContinues == FALSE

\* "return" after the warning for an id without a row
NoRowReturns == TRUE

\* get_metadata(id, metadata_type, save_dir): every Exception is caught
GetMetadata(fs, st, id, type, save_dir, doc, o) ==
    LET info == GetDatasetsInfo(fs, type, o)
        noCsv == [info.fs EXCEPT ![IndexCsv(type)] = NoFile]
        noIdx == [noCsv EXCEPT ![IndexXml(type)] = NoFile]
        begun == <<"os.makedirs">> \o info.steps
        read == begun \o <<"read_csv">>
        cleared == read \o <<Removed(IndexCsv(type)), Removed(IndexXml(type))>>
        caught(fs2, st2, done) ==
            IF MetadataFailureCaught
            THEN [fs |-> fs2, st |-> st2, raised |-> FALSE,
                  steps |-> done \o <<"logger.error">>]
            ELSE [fs |-> fs2, st |-> st2, raised |-> TRUE, steps |-> done]
        saved == SavePrettifiedXmlToZip(noIdx, st, id, save_dir,
                     IF o = "malformed" THEN Malformed ELSE doc, o)
    IN  IF o = Interrupt
        THEN [fs |-> info.fs, st |-> st, raised |-> TRUE, steps |-> begun]
        ELSE IF info.raised THEN caught(info.fs, st, begun)
        ELSE IF info.fs[IndexCsv(type)] = NoFile THEN caught(info.fs, st, read)
        ELSE IF o = "read_error" THEN caught(info.fs, st, read)
        ELSE IF noCsv[IndexXml(type)] = NoFile
        THEN caught(noCsv, st, read \o <<Removed(IndexCsv(type))>>)
        ELSE IF o = "no_row" /\ NoRowReturns
        THEN [fs |-> noIdx, st |-> st, raised |-> FALSE,
              steps |-> cleared \o <<"logger.warning">>]
        ELSE IF o = "request_error"
        THEN caught(noIdx, st, cleared \o <<"requests.get structureURL">>)
        ELSE [fs |-> saved.fs, st |-> saved.st, raised |-> FALSE,
              steps |-> cleared
                          \o (IF o = "no_row" THEN <<"logger.warning">> ELSE <<>>)
                          \o <<"requests.get structureURL">> \o saved.steps
                          \o <<"logger.info">>]

\* xml2csv_metadata ran in the get_datasets_info call of a get_metadata
\* call: the call wrote {type}.csv itself
WritesIndex(fs, type, o) ==
    LET info == GetDatasetsInfo(fs, type, o)
    IN  \E k \in DOMAIN info.steps : info.steps[k] = "xml2csv_metadata"

\* pd.read_csv(f'{metadata_type}.csv') of a get_metadata call opens a file
\* the call did not write: get_datasets_info returned without writing and
\* an earlier call left {type}.csv
ReadsLeftIndex(fs, type, o) ==
    /\ o # Interrupt
    /\ ~GetDatasetsInfo(fs, type, o).raised
    /\ ~WritesIndex(fs, type, o)
    /\ fs[IndexCsv(type)] # NoFile

\* the get_metadata call of get_data_version or get_data_columns wrote
\* dim_{dataset}.zip: a document was fetched and saved in this call
SavesArchive(fs, d, doc, o) ==
    LET steps == GetMetadata(fs, {}, d, "conceptscheme", ".", doc, o).steps
    IN  \E k \in DOMAIN steps : steps[k] = Written(DimZip(d))

\* unzip_files('.'): every archive of the directory is unpacked into it
UnzipFiles(fs, v) ==
    [f \in DOMAIN fs |->
        IF \E d \in DatasetSet(v) : f = DimXml(d) /\ fs[DimZip(d)] # NoFile
        THEN fs[DimZip(CHOOSE d \in DatasetSet(v) : f = DimXml(d))]
        ELSE fs[f]]

\* the two files removed after a successful parse, zip first
RemovalZipFirst(d) == <<DimZip(d), DimXml(d)>>

\* os.remove(f'dim_{dataset}.xml') and then os.remove(f'dim_{dataset}.zip')
RemovalOrder(d) == <<DimXml(d), DimZip(d)>>

\* lines 204-208 shared by get_data_version and get_data_columns, got
\* being what get_metadata left: unpack, parse, remove both files; unpacked
\* is the directory as the parse met it and content what was parsed
ParseConceptscheme(got, v, d) ==
    LET unz == UnzipFiles(got.fs, v)
        first == RemovalOrder(d)[1]
        second == RemovalOrder(d)[2]
        parsed == <<"get_metadata">> \o got.steps
                      \o <<"unzip_files", Parsed(DimXml(d))>>
        noFirst == [unz EXCEPT ![first] = NoFile]
    IN  IF got.raised
        THEN [fs |-> got.fs, raised |-> TRUE, text |-> <<>>,
              steps |-> <<"get_metadata">> \o got.steps,
              unpacked |-> got.fs, content |-> NoFile]
        ELSE IF unz[DimXml(d)] \in {NoFile, Malformed}
        THEN [fs |-> unz, raised |-> TRUE, text |-> <<>>, steps |-> parsed,
              unpacked |-> unz, content |-> NoFile]
        ELSE IF unz[first] = NoFile
        THEN [fs |-> unz, raised |-> TRUE, text |-> <<>>, steps |-> parsed,
              unpacked |-> unz, content |-> unz[DimXml(d)]]
        ELSE IF noFirst[second] = NoFile
        THEN [fs |-> noFirst, raised |-> TRUE, text |-> <<>>,
              steps |-> parsed \o <<Removed(first)>>,
              unpacked |-> unz, content |-> unz[DimXml(d)]]
        ELSE [fs |-> [noFirst EXCEPT ![second] = NoFile], raised |-> FALSE,
              text |-> HeaderText(unz[DimXml(d)]),
              steps |-> parsed \o <<Removed(first), Removed(second)>>,
              unpacked |-> unz, content |-> unz[DimXml(d)]]

\* lines 203-208 shared by get_data_version and get_data_columns: fetch
\* the conceptscheme document into '.', then unpack, parse and remove
FetchConceptscheme(fs, v, d, doc, o) ==
    ParseConceptscheme(
        GetMetadata(fs, {}, d, "conceptscheme", ".", doc, o), v, d)

\* line 206 and the return of get_data_version, r being what lines 203-208
\* gave
VersionStamp(r) ==
    [fs |-> r.fs, raised |-> r.raised, text |-> r.text, steps |-> r.steps,
     value |-> IF r.raised THEN None ELSE VersionOfText(r.text)]

\* lines 233-238 of get_data_columns, r being what lines 226-228 and the
\* removals gave: the loop over the Enumeration elements runs between the
\* parse and the two removals, and item[0] raises on an element without a
\* child
ColumnIds(r, d) ==
    IF HasChildless(r.content)
    THEN [fs |-> r.unpacked, raised |-> TRUE, text |-> <<>>, value |-> <<>>]
    ELSE [fs |-> r.fs, raised |-> r.raised, text |-> r.text,
          value |-> IF r.raised THEN <<>> ELSE Enumerations(d)]

\* get_data_version(dataset) of the eurostat collector
GetDataVersionEurostat(fs, v, d, doc, o) ==
    VersionStamp(FetchConceptscheme(fs, v, d, doc, o))

\* get_data_version(dataset) of the unido collector: production_year of the
\* dataset document, or an exception when the request or the JSON fails
GetDataVersionUnido(fs, doc, o) ==
    [fs |-> fs, raised |-> o # "ok",
     value |-> IF o # "ok" THEN None ELSE Join(doc)]

\* get_data_columns(dataset)
GetDataColumns(fs, v, d, doc, o) ==
    ColumnIds(FetchConceptscheme(fs, v, d, doc, o), d)

\* get_data_description(dataset): nothing is caught
GetDataDescription(fs, d, o) ==
    LET info == GetDatasetsInfo(fs, "dataflow", o)
        noCsv == [info.fs EXCEPT ![IndexCsv("dataflow")] = NoFile]
    IN  IF info.raised \/ info.fs[IndexCsv("dataflow")] = NoFile
        THEN [fs |-> info.fs, raised |-> TRUE, value |-> ""]
        ELSE IF noCsv[IndexXml("dataflow")] = NoFile
        THEN [fs |-> noCsv, raised |-> TRUE, value |-> ""]
        ELSE [fs |-> [noCsv EXCEPT ![IndexXml("dataflow")] = NoFile],
              raised |-> FALSE,
              value |-> IF o = "no_row" THEN "Series([], )"
                        ELSE "name of " \o d]

(***************************************************************************)
(* The resource catalog (config.resource_repository).                      *)
(***************************************************************************)
\* get_latest_version(name, stage, task_name): the recorded version, or an
\* exception when there is no record or the lookup itself fails
GetLatestVersion(cat, key, o) ==
    IF o # "ok" \/ cat[key] = NotFound
    THEN [raised |-> TRUE, value |-> None]
    ELSE [raised |-> FALSE, value |-> cat[key]]

\* add_or_update_resource_list(resource): the descriptor's data_version
\* becomes the latest version under its key
AddOrUpdateResourceList(cat, key, res) ==
    [cat EXCEPT ![key] = res.data_version]

(***************************************************************************)
(* The loop body of eurostat_collect and unido_collect, piece by piece.    *)
(***************************************************************************)
\* config.schemas.DataResource(...) and the location assigned after it
NewDescriptor(v, d) ==
    [name |-> ResourceName(v, d),
     location |-> InitialLocation(v, d),
     data_version |-> InitialVersion(v),
     description |-> ""]

\* a handler that falls back on the record the catalog holds
LookupLatestKeepsRecord(cat, key, o) ==
    IF cat[key] = NotFound THEN None ELSE cat[key]

\* try: latest_version = repo.get_latest_version(...)
\* except: latest_version = None
LookupLatest(cat, key, o) ==
    LET r == GetLatestVersion(cat, key, o)
    IN  IF r.raised THEN None ELSE r.value

\* the branch of "if latest_version: if latest_version != online_version:
\* ... else: ..." that is taken
Decide(latest, online) ==
    IF Truthy(latest)
    THEN IF latest # online THEN "SYNC_UPDATE" ELSE "SKIP"
    ELSE "SYNC_NEW"

\* a gate whose sync body runs whatever branch is taken
SyncsAlways(decision) == TRUE

\* the branches that hold the sync body: "if latest_version !=
\* online_version:" and the outer "else:"; an equal version falls through
\* to the next dataset
Syncs(decision) == decision # "SKIP"

\* a unido variant whose outer else branch assigns the online version
\* without the sentinel fallback
AssignedVersionUnidoPlain(v, decision, online) ==
    IF decision = "SYNC_UPDATE" THEN online
    ELSE IF Truthy(online) \/ v = "unido" THEN online
    ELSE Sentinel(v)

\* the data_version the taken branch assigns
AssignedVersion(v, decision, online) ==
    IF decision = "SYNC_UPDATE" THEN online
    ELSE IF Truthy(online) THEN online
    ELSE Sentinel(v)

\* the location the sync branches pass on and commit: resource.location as
\* it was built, neither branch assigns it
SyncLocation(res) == res.location

\* one get_metadata call per metadata type, each keyed by the dataset
MetadataCallsPerType(d, cols, k) ==
    [j \in 1..Len(metadata_types) |-> <<d, metadata_types[j]>>]

\* the get_metadata calls of "for metadata in metadata_types", in order,
\* as <<id, metadata_type>>
RECURSIVE MetadataCalls(_, _, _)
MetadataCalls(d, cols, k) ==
    IF k > Len(metadata_types) THEN <<>>
    ELSE (IF metadata_types[k] = "codelist"
          THEN [j \in 1..Len(cols) |-> <<cols[j], "codelist">>]
          ELSE << <<d, metadata_types[k]>> >>)
         \o MetadataCalls(d, cols, k + 1)

\* a primary-data fetch whose failure is caught and logged, as the failures
\* of get_metadata are
DataFailureSwallowed == FALSE

\* what a failed primary-data fetch does to the pass: get_data and
\* download_unido_data catch nothing, and neither does the loop
DataFailureAborts == TRUE

\* a commit whose failure is caught and logged, the loop going on
CommitFailureSwallowed == FALSE

\* what a failed commit does to the pass: nothing catches it
CommitFailureAborts == TRUE

\* a commit after which the flag is left as it was initialised
DidUpdateNotSet == FALSE

\* did_update = True, the statement after the commit
DidUpdateAfterCommit == TRUE

(***************************************************************************)
(* State machine.                                                          *)
(***************************************************************************)
\* no helper has been called directly
NoProbe ==
    [fn |-> "", id |-> "", type |-> "", outcome |-> "", doc |-> <<>>,
     body |-> <<>>, steps |-> <<>>, raised |-> FALSE, version |-> None,
     columns |-> <<>>, served |-> <<>>, saved |-> FALSE, left |-> FALSE,
     owner |-> ""]

Init ==
    /\ variant \in {"eurostat", "unido"}
    /\ remote = [d \in DatasetSet(variant) |-> FirstText(variant)]
    /\ catalog = [k \in Keys(variant) |-> NotFound]
    /\ cwd = [f \in WorkFiles(variant) |-> NoFile]
    /\ store = {}
    /\ status = "idle"
    /\ result = FALSE
    /\ pc = "none"
    /\ i = 0
    /\ m = 0
    /\ resource = NewDescriptor(variant, Datasets(variant)[1])
    /\ online_version = None
    /\ code_list = <<>>
    /\ data_description = ""
    /\ latest_version = None
    /\ did_update = FALSE
    /\ calls = <<>>
    /\ decided = <<>>
    /\ commits = <<>>
    /\ failed = {}
    /\ faults = 0
    /\ changes = 0
    /\ unchanged = TRUE
    /\ stable = FALSE
    /\ probe = NoProbe

\* a loop that walks the configured list from its end
DatasetReversed == Datasets(variant)[Len(Datasets(variant)) + 1 - i]

\* the dataset of the current loop iteration
Dataset == Datasets(variant)[i]

\* a failure may be injected while the budget lasts
Budget(o) == o = "ok" \/ faults < MaxFaults
Charge(o) == faults' = IF o = "ok" THEN faults ELSE faults + 1

locals == <<resource, online_version, code_list, data_description, latest_version>>
world == <<variant, remote, changes, unchanged, stable, probe>>
history == <<decided, commits>>

\* one entry of the record of calls: the function, the dataset being
\* processed, the id and metadata type asked for, the target directory and,
\* for the primary-data fetch and the commit, what the call met
Call(fn, d, id, type, dir, o) ==
    [fn |-> fn, dataset |-> d, id |-> id, type |-> type, dir |-> dir,
     outcome |-> o]

\* an exception leaves the loop and the collector
Abort ==
    /\ status' = "raised"
    /\ pc' = "none"
    /\ failed' = failed \cup {<<Dataset, pc>>}

\* the loop moves on to the next dataset, or leaves the loop
Advance ==
    /\ i' = i + 1
    /\ pc' = IF i < Len(Datasets(variant)) THEN "resource" ELSE "return"

\* the remote agency publishes another version of a dataset
RemoteChange ==
    /\ status # "running"
    /\ changes < MaxChanges
    /\ changes' = changes + 1
    /\ \E d \in DatasetSet(variant), t \in RemoteTexts(variant) :
        /\ t # remote[d]
        /\ remote' = [remote EXCEPT ![d] = t]
    /\ unchanged' = FALSE
    /\ UNCHANGED <<variant, catalog, cwd, store, status, result, pc, i, m,
                   locals, did_update, calls, history, failed, faults, stable,
                   probe>>

\* eurostat_collect(config) / unido_collect(config) is called: its locals
\* are fresh, did_update = False
StartPass ==
    /\ status # "running"
    /\ status' = "running"
    /\ result' = FALSE
    /\ did_update' = FALSE
    /\ i' = 1
    /\ m' = 0
    /\ pc' = "resource"
    /\ resource' = NewDescriptor(variant, Datasets(variant)[1])
    /\ online_version' = None
    /\ code_list' = <<>>
    /\ data_description' = ""
    /\ latest_version' = None
    /\ store' = {}
    /\ calls' = <<>>
    /\ decided' = <<>>
    /\ commits' = <<>>
    /\ failed' = {}
    /\ stable' = (status = "returned" /\ unchanged)
    /\ unchanged' = TRUE
    /\ UNCHANGED <<variant, remote, catalog, cwd, faults, changes, probe>>

\* the descriptor of the next dataset is built
NewResource ==
    /\ status = "running" /\ pc = "resource"
    /\ resource' = NewDescriptor(variant, Dataset)
    /\ online_version' = None
    /\ code_list' = <<>>
    /\ data_description' = ""
    /\ latest_version' = None
    /\ pc' = "version"
    /\ UNCHANGED <<world, catalog, cwd, store, status, result, i, m,
                   did_update, calls, history, failed, faults>>

\* online_version = get_data_version(dataset)
FetchVersion ==
    /\ status = "running" /\ pc = "version"
    /\ \E o \in MetadataOutcomes :
        /\ Budget(o) /\ Charge(o)
        /\ LET r == IF variant = "eurostat"
                    THEN GetDataVersionEurostat(cwd, variant, Dataset, remote[Dataset], o)
                    ELSE GetDataVersionUnido(cwd, remote[Dataset], o)
           IN  /\ cwd' = r.fs
               /\ online_version' = r.value
               /\ IF r.raised
                  THEN Abort /\ i' = i
                  ELSE /\ pc' = IF variant = "eurostat" THEN "columns" ELSE "lookup"
                       /\ UNCHANGED <<status, failed, i>>
        /\ calls' = calls \o
         (IF variant = "eurostat"
          THEN << Call("get_data_version", Dataset, Dataset, "", "", ""),
                  Call("get_metadata", Dataset, Dataset, "conceptscheme", ".", "") >>
          ELSE << Call("get_data_version", Dataset, Dataset, "", "", "") >>)
    /\ UNCHANGED <<world, catalog, store, result, m, resource, code_list,
                   data_description, latest_version, did_update, history>>

\* code_list = get_data_columns(dataset)
FetchColumns ==
    /\ status = "running" /\ pc = "columns"
    /\ \E o \in MetadataOutcomes :
        /\ Budget(o) /\ Charge(o)
        /\ LET r == GetDataColumns(cwd, variant, Dataset, remote[Dataset], o)
           IN  /\ cwd' = r.fs
               /\ code_list' = r.value
               /\ IF r.raised
                  THEN Abort /\ i' = i
                  ELSE /\ pc' = "description"
                       /\ UNCHANGED <<status, failed, i>>
        /\ calls' = calls \o
         << Call("get_data_columns", Dataset, Dataset, "", "", ""),
            Call("get_metadata", Dataset, Dataset, "conceptscheme", ".", "") >>
    /\ UNCHANGED <<world, catalog, store, result, m, resource, online_version,
                   data_description, latest_version, did_update, history>>

\* data_description = get_data_description(dataset)
FetchDescription ==
    /\ status = "running" /\ pc = "description"
    /\ \E o \in {"ok", "http_error", "write_error", "convert_error", "no_row"} :
        /\ Budget(o) /\ Charge(o)
        /\ LET r == GetDataDescription(cwd, Dataset, o)
           IN  /\ cwd' = r.fs
               /\ data_description' = r.value
               /\ IF r.raised
                  THEN Abort /\ i' = i
                  ELSE /\ pc' = "lookup"
                       /\ UNCHANGED <<status, failed, i>>
        /\ calls' = Append(calls,
             Call("get_data_description", Dataset, Dataset, "", "", ""))
    /\ UNCHANGED <<world, catalog, store, result, m, resource, online_version,
                   code_list, latest_version, did_update, history>>

\* the catalog lookup, the branch taken on its result and the data_version
\* the branch assigns
Lookup ==
    /\ status = "running" /\ pc = "lookup"
    /\ \E o \in {"ok", "lookup_error"} :
        /\ o = "ok" \/ catalog[Key(variant, Dataset)] # NotFound
        /\ Budget(o) /\ Charge(o)
        /\ LET latest == LookupLatest(catalog, Key(variant, Dataset), o)
               decision == Decide(latest, online_version)
           IN  /\ latest_version' = latest
               /\ decided' = Append(decided,
                     [dataset |-> Dataset,
                      recorded |-> catalog[Key(variant, Dataset)],
                      latest |-> latest,
                      online |-> online_version,
                      decision |-> decision,
                      raised |-> GetLatestVersion(catalog,
                                    Key(variant, Dataset), o).raised])
               /\ IF ~Syncs(decision)
                  THEN Advance /\ UNCHANGED resource
                  ELSE /\ resource' = [resource EXCEPT !.data_version =
                              AssignedVersion(variant, decision, online_version)]
                       /\ pc' = "data"
                       /\ i' = i
        /\ calls' = Append(calls,
             Call("get_latest_version", Dataset, Dataset, "", "", ""))
    /\ UNCHANGED <<world, catalog, cwd, store, status, result, m,
                   online_version, code_list, data_description, did_update,
                   commits, failed>>

\* get_data(dataset, resource.location) and resource.description = ..., or
\* download_unido_data(resource.name, resource.location)
FetchData ==
    /\ status = "running" /\ pc = "data"
    /\ \E o \in {"ok", "data_error"} :
        /\ Budget(o) /\ Charge(o)
        /\ IF o # "ok" /\ DataFailureAborts
           THEN Abort /\ UNCHANGED <<store, resource, m>>
           ELSE /\ store' = IF o = "ok"
                            THEN store \cup {<<SyncLocation(resource), Dataset>>}
                            ELSE store
                /\ resource' = IF variant = "eurostat"
                               THEN [resource EXCEPT !.description = data_description]
                               ELSE resource
                /\ m' = 1
                /\ pc' = IF variant = "eurostat" THEN "metadata" ELSE "commit"
                /\ UNCHANGED <<status, failed>>
        /\ calls' = Append(calls,
             Call("get_data", Dataset, Dataset, "", SyncLocation(resource), o))
    /\ UNCHANGED <<world, catalog, cwd, result, i, online_version, code_list,
                   data_description, latest_version, did_update, history>>

\* one get_metadata call of the loop over metadata_types
FetchMetadata ==
    /\ status = "running" /\ pc = "metadata"
    /\ LET todo == MetadataCalls(Dataset, code_list, 1)
           dir == SyncLocation(resource) \o "/metadata"
       IN  \E o \in MetadataOutcomes :
                /\ Budget(o) /\ Charge(o)
                /\ LET r == GetMetadata(cwd, store, todo[m][1], todo[m][2],
                                        dir, IndexDoc, o)
                   IN  /\ cwd' = r.fs
                       /\ store' = r.st
                       /\ IF r.raised
                          THEN Abort /\ UNCHANGED m
                          ELSE /\ m' = m + 1
                               /\ pc' = IF m < Len(todo) THEN "metadata"
                                        ELSE "commit"
                               /\ UNCHANGED <<status, failed>>
                /\ calls' = Append(calls,
                     Call("get_metadata", Dataset, todo[m][1], todo[m][2], dir, ""))
    /\ UNCHANGED <<world, catalog, result, i, locals, did_update, history>>

\* repo.add_or_update_resource_list(resource) and did_update = True
Commit ==
    /\ status = "running" /\ pc = "commit"
    /\ \E o \in {"ok", "commit_error"} :
        /\ Budget(o) /\ Charge(o)
        /\ IF o # "ok" /\ CommitFailureAborts
           THEN Abort /\ i' = i /\ UNCHANGED <<catalog, did_update, commits>>
           ELSE /\ catalog' = IF o = "ok"
                              THEN AddOrUpdateResourceList(catalog,
                                       Key(variant, Dataset), resource)
                              ELSE catalog
                /\ did_update' = DidUpdateAfterCommit
                /\ commits' = IF o = "ok"
                              THEN Append(commits,
                                     [dataset |-> Dataset,
                                      data_version |-> resource.data_version,
                                      location |-> resource.location,
                                      prior |-> catalog[Key(variant, Dataset)],
                                      online |-> online_version])
                              ELSE commits
                /\ Advance
                /\ UNCHANGED <<status, failed>>
        /\ calls' = Append(calls,
             Call("add_or_update_resource_list", Dataset, Dataset, "", "", o))
    /\ UNCHANGED <<world, cwd, store, result, m, locals, decided>>

\* return did_update
Return ==
    /\ status = "running" /\ pc = "return"
    /\ status' = "returned"
    /\ result' = did_update
    /\ pc' = "none"
    /\ UNCHANGED <<world, catalog, cwd, store, i, m, locals, did_update,
                   calls, history, failed, faults>>

Next ==
    \/ RemoteChange
    \/ StartPass
    \/ NewResource
    \/ FetchVersion
    \/ FetchColumns
    \/ FetchDescription
    \/ Lookup
    \/ FetchData
    \/ FetchMetadata
    \/ Commit
    \/ Return

Spec == Init /\ [][Next]_vars

(***************************************************************************)
(* The helpers called on their own, as the unit tests call them: one       *)
(* call in a working directory nothing has written to yet, with its own    *)
(* arguments and with what it meets on the way.                            *)
(***************************************************************************)
pass == <<catalog, status, result, pc, i, m, locals, did_update, calls,
          history, failed>>
published == <<variant, remote, changes, unchanged, stable>>

\* what a direct call of get_metadata or get_data_version can meet
ProbeOutcomes == MetadataOutcomes \cup {Interrupt}

\* the directory a direct call of get_metadata saves to
ProbeDir == InitialLocation("eurostat", eurostat_datasets[1]) \o "/metadata"

HelperInit == Init /\ variant = "eurostat"

\* the call is the first one made
Fresh == probe = NoProbe

\* get_datasets_info(metadata_type, '.')
ProbeGetDatasetsInfo ==
    /\ Fresh
    /\ \E type \in Range(metadata_types),
          o \in {"ok", "http_error", "write_error", "convert_error"} :
        /\ Budget(o) /\ Charge(o)
        /\ LET r == GetDatasetsInfo(cwd, type, o)
           IN  /\ cwd' = r.fs
               /\ probe' = [NoProbe EXCEPT !.fn = "get_datasets_info",
                                           !.type = type, !.outcome = o,
                                           !.steps = r.steps,
                                           !.raised = r.raised]
    /\ store' = {}
    /\ UNCHANGED <<pass, published>>

\* get_metadata(id, metadata_type, save_dir)
ProbeGetMetadata ==
    /\ Fresh
    /\ \E id \in DatasetSet(variant) \cup {"GEO"},
          type \in Range(metadata_types), o \in ProbeOutcomes :
        /\ Budget(o) /\ Charge(o)
        /\ LET r == GetMetadata(cwd, {}, id, type, ProbeDir, IndexDoc, o)
           IN  /\ cwd' = r.fs
               /\ store' = r.st
               /\ probe' = [NoProbe EXCEPT !.fn = "get_metadata", !.id = id,
                                           !.type = type, !.outcome = o,
                                           !.steps = r.steps,
                                           !.raised = r.raised]
    /\ UNCHANGED <<pass, published>>

\* get_data_version(dataset), the document on the server carrying any of
\* the header texts
ProbeGetDataVersion ==
    /\ Fresh
    /\ \E d \in DatasetSet(variant), doc \in Timestamps, o \in ProbeOutcomes :
        /\ Budget(o) /\ Charge(o)
        /\ LET r == GetDataVersionEurostat(cwd, variant, d, doc, o)
           IN  /\ cwd' = r.fs
               /\ probe' = [NoProbe EXCEPT !.fn = "get_data_version", !.id = d,
                                           !.outcome = o, !.doc = r.text,
                                           !.steps = r.steps,
                                           !.raised = r.raised,
                                           !.version = r.value]
    /\ store' = {}
    /\ UNCHANGED <<pass, published>>

\* the loop of get_data_columns over the Enumeration elements of a parsed
\* document
ProbeEnumerationIds ==
    /\ Fresh
    /\ \E body \in Bodies :
        probe' = [NoProbe EXCEPT !.fn = "findall", !.body = body,
                                 !.columns = EnumerationIds(body)]
    /\ UNCHANGED <<pass, published, cwd, store, faults>>

HelperNext ==
    \/ ProbeGetDatasetsInfo
    \/ ProbeGetMetadata
    \/ ProbeGetDataVersion
    \/ ProbeEnumerationIds

HelperSpec == HelperInit /\ [][HelperNext]_vars

(***************************************************************************)
(* Direct calls of get_data_version and get_data_columns one after the     *)
(* other in one working directory, which nothing clears between the calls: *)
(* what a call leaves behind is what the next call finds.  probe holds the *)
(* last call: the document the server held (served), the header text of    *)
(* the document that was parsed (doc) and what the call returned; saved    *)
(* tells that the call fetched and saved a document of its own, left       *)
(* tells that read_csv opened a conceptscheme.csv an earlier call had left *)
(* and owner names the dataset of the call that last wrote that file.      *)
(***************************************************************************)
\* the documents the server can hold for a dataset: two prepared on
\* different days, and the earlier one with an Enumeration element that has
\* no child
ServedDocuments == {Prepared1, Prepared2, WithChildless(Prepared1)}

\* what a call of the sequence can meet: nothing; the index request
\* failing; get_datasets_info returning without writing the index files;
\* read_csv failing after both were written; a saved document that does not
\* parse
SequenceOutcomes ==
    {"ok", "http_error", "write_error", "read_error", "malformed"}

\* the dataset of the call that last wrote conceptscheme.csv, after a call
\* for dataset d
IndexOwner(d, o) ==
    IF WritesIndex(cwd, "conceptscheme", o) THEN d ELSE probe.owner

\* get_data_version(dataset)
CallGetDataVersion ==
    /\ \E d \in DatasetSet(variant), doc \in ServedDocuments,
          o \in SequenceOutcomes :
        LET r == GetDataVersionEurostat(cwd, variant, d, doc, o)
        IN  /\ cwd' = r.fs
            /\ probe' = [NoProbe EXCEPT !.fn = "get_data_version", !.id = d,
                                        !.outcome = o, !.served = doc,
                                        !.doc = r.text,
                                        !.raised = r.raised,
                                        !.version = r.value,
                                        !.saved = SavesArchive(cwd, d, doc, o),
                                        !.left = ReadsLeftIndex(cwd,
                                                    "conceptscheme", o),
                                        !.owner = IndexOwner(d, o)]
    /\ UNCHANGED <<pass, published, store, faults>>

\* get_data_columns(dataset)
CallGetDataColumns ==
    /\ \E d \in DatasetSet(variant), doc \in ServedDocuments,
          o \in SequenceOutcomes :
        LET r == GetDataColumns(cwd, variant, d, doc, o)
        IN  /\ cwd' = r.fs
            /\ probe' = [NoProbe EXCEPT !.fn = "get_data_columns", !.id = d,
                                        !.outcome = o, !.served = doc,
                                        !.doc = r.text,
                                        !.raised = r.raised,
                                        !.columns = r.value,
                                        !.saved = SavesArchive(cwd, d, doc, o),
                                        !.left = ReadsLeftIndex(cwd,
                                                    "conceptscheme", o),
                                        !.owner = IndexOwner(d, o)]
    /\ UNCHANGED <<pass, published, store, faults>>

SequenceNext ==
    \/ CallGetDataVersion
    \/ CallGetDataColumns

SequenceSpec == HelperInit /\ [][SequenceNext]_vars

(***************************************************************************)
(* Properties.                                                             *)
(***************************************************************************)
\* the calls of this pass the loop body made on the sync path for dataset
\* d: the primary-data fetch, the metadata documents fetched into the
\* storage location, and the commit
SyncCalls(d) ==
    {j \in DOMAIN calls :
        /\ calls[j].dataset = d
        /\ \/ calls[j].fn \in {"get_data", "add_or_update_resource_list"}
           \/ calls[j].fn = "get_metadata" /\ calls[j].dir # "."}

\* the source directory name of the collector
SourceName(v) == IF v = "eurostat" THEN "eurostat" ELSE "unido"

\* C1: in one pass, for every dataset whose catalog-recorded version equals
\* the observed online version the loop body makes no get_data call, no
\* get_metadata call and no add_or_update_resource_list call, and a pass in
\* which this holds for every configured dataset returns false. Stated for
\* the runs in which every call so far succeeded.
C1_NoSyncWhenVersionsMatch ==
    faults = 0 =>
        /\ \A k \in DOMAIN decided :
              decided[k].recorded = decided[k].online
                  => SyncCalls(decided[k].dataset) = {}
        /\ (/\ status = "returned"
            /\ \A k \in DOMAIN decided : decided[k].recorded = decided[k].online)
              => result = FALSE

\* C2: the branch taken for a dataset is the three-way gate on (recorded,
\* observed): no value returned by the lookup gives SYNC_NEW, a returned
\* value equal to the observed one gives SKIP, a returned value different
\* from it gives SYNC_UPDATE, whatever the returned value is (an empty
\* stamp included).
C2_ThreeWayGate ==
    \A k \in DOMAIN decided :
        decided[k].decision =
            IF decided[k].latest = None THEN "SYNC_NEW"
            ELSE IF decided[k].latest = decided[k].online THEN "SKIP"
            ELSE "SYNC_UPDATE"

\* C3: a pass that follows a pass which returned normally, with no remote
\* version changed in between, decides SKIP for every dataset, commits
\* nothing and returns false. Stated for the runs in which every call so
\* far succeeded.
C3_Idempotence ==
    (stable /\ faults = 0) =>
        /\ \A k \in DOMAIN decided : decided[k].decision = "SKIP"
        /\ commits = <<>>
        /\ status = "returned" => result = FALSE

\* C4: every descriptor handed to add_or_update_resource_list has a
\* data_version different from the stamp the catalog held under its key, or
\* the catalog held none.
C4_CommitOnlyOnChange ==
    \A k \in DOMAIN commits :
        \/ commits[k].prior = NotFound
        \/ commits[k].data_version # commits[k].prior

\* C5: every committed descriptor has data_version equal to the observed
\* online stamp when that is not empty and equal to the sentinel when it is
\* empty; an empty or null data_version is never committed.
C5_CommittedVersion ==
    \A k \in DOMAIN commits :
        /\ commits[k].data_version =
              IF Truthy(commits[k].online) THEN commits[k].online
              ELSE Sentinel(variant)
        /\ Truthy(commits[k].data_version)

\* collect/{source}/{dataset}/{version}
VersionedLocation(v, d, version) ==
    "collect/" \o SourceName(v) \o "/" \o d \o "/" \o version

\* C6: the committed location, and the directory the primary data and the
\* metadata of a committed dataset were fetched into, is
\* collect/{source}/{dataset}/{committed data_version}. Stated for the
\* eurostat collector, whose location is a plain string built in the loop.
C6_LocationFollowsVersion ==
    variant = "eurostat" =>
    \A k \in DOMAIN commits :
        LET loc == VersionedLocation(variant, commits[k].dataset,
                                     commits[k].data_version)
        IN  /\ commits[k].location = loc
            /\ \A j \in SyncCalls(commits[k].dataset) :
                  /\ calls[j].fn = "get_data" => calls[j].dir = loc
                  /\ calls[j].fn = "get_metadata"
                        => calls[j].dir = loc \o "/metadata"

\* C7: while a pass runs did_update is true exactly if the pass has
\* committed a descriptor, and a pass that returned normally returned true
\* exactly if it committed at least one descriptor.
C7_ResultIffCommitted ==
    /\ status = "running" => (did_update <=> commits # <<>>)
    /\ status = "returned" => (result <=> commits # <<>>)

\* C7 witness: a pass returned true after skipping one dataset and
\* committing another
C7_Witness ==
    /\ status = "returned" /\ result
    /\ Len(commits) = 1
    /\ \E k \in DOMAIN decided : decided[k].decision = "SKIP"

\* C8: when a pass has ended, by return or by exception, every dataset of
\* the configured list has been processed in it: a failure while processing
\* one dataset does not keep a later one from being processed.
C8_FailureIsolation ==
    status \in {"returned", "raised"} =>
        \A d \in DatasetSet(variant) :
            \E j \in DOMAIN calls : calls[j].dataset = d

\* C9: with no catalog record for a dataset, a version fetch that fails
\* does not end the pass: the data is fetched and the sentinel committed.
C9_NoAbortOnUnknownVersion ==
    \A f \in failed :
        ~(f[2] = "version" /\ catalog[Key(variant, f[1])] = NotFound)

\* C10: a descriptor is committed only after the primary-data fetch of its
\* dataset completed; a failed primary-data fetch ends the pass at once with
\* an exception, with no commit for that dataset and did_update not set on
\* its account.
C10_NoCommitWithoutData ==
    /\ \A k \in DOMAIN commits :
          \E j \in DOMAIN calls :
              /\ calls[j].fn = "get_data"
              /\ calls[j].dataset = commits[k].dataset
              /\ calls[j].outcome = "ok"
    /\ \A j \in DOMAIN calls :
          (calls[j].fn = "get_data" /\ calls[j].outcome # "ok") =>
              /\ status = "raised"
              /\ j = Len(calls)
              /\ <<calls[j].dataset, "data">> \in failed
              /\ \A k \in DOMAIN commits :
                    commits[k].dataset # calls[j].dataset
              /\ did_update <=> commits # <<>>

\* C10 witness: the primary-data fetch of a dataset failed after an earlier
\* dataset of the pass was committed
C10_Witness ==
    /\ status = "raised"
    /\ Len(commits) = 1
    /\ did_update
    /\ \E j \in DOMAIN calls :
          calls[j].fn = "get_data" /\ calls[j].outcome = "data_error"

\* the get_metadata calls the loop body made for dataset d, in order
MetadataFetches(d) ==
    SelectSeq(calls, LAMBDA c :
        c.fn = "get_metadata" /\ c.dataset = d /\ c.dir # ".")

\* the calls of add_or_update_resource_list for dataset d, in order
CommitCalls(d) ==
    SelectSeq(calls, LAMBDA c :
        c.fn = "add_or_update_resource_list" /\ c.dataset = d)

\* a get_metadata call of the loop body after which the archive it was to
\* write is not in its target directory: the call failed on the way
Unsaved(c) ==
    /\ c.fn = "get_metadata"
    /\ c.dir # "."
    /\ <<c.dir, DimZip(c.id)>> \notin store

\* C11: get_metadata never raises to the loop on a failure of the index
\* fetch, the CSV read, the structure-document request or the zip save: no
\* pass ends by an exception at a metadata fetch, and after a metadata
\* fetch of a dataset that saved nothing the loop still makes every
\* remaining get_metadata call of that dataset (2 + number of column ids
\* in all) and then calls add_or_update_resource_list for it.
C11_MetadataFailureContained ==
    /\ \A f \in failed : f[2] # "metadata"
    /\ \A j \in DOMAIN calls :
          Unsaved(calls[j]) =>
              LET d == calls[j].dataset
                  all == Len(MetadataFetches(d)) = 2 + Len(Enumerations(d))
              IN  \/ /\ status = "running"
                     /\ pc \in {"metadata", "commit"}
                     /\ Dataset = d
                     /\ pc = "commit" => all
                  \/ /\ all
                     /\ \E k \in DOMAIN calls :
                           /\ k > j
                           /\ calls[k].fn = "add_or_update_resource_list"
                           /\ calls[k].dataset = d

\* C11 witness: a pass returned after committing a dataset one of whose
\* metadata fetches had failed and saved nothing
C11_Witness ==
    /\ status = "returned"
    /\ \E j \in DOMAIN calls, k \in DOMAIN commits :
          /\ Unsaved(calls[j])
          /\ commits[k].dataset = calls[j].dataset

\* C12: a failed add_or_update_resource_list ends the pass at once with an
\* exception: it is the last call of the pass, no descriptor of that
\* dataset counts as committed, and did_update is true only if an earlier
\* dataset of the pass was committed.
C12_CommitFailurePropagates ==
    \A j \in DOMAIN calls :
        (/\ calls[j].fn = "add_or_update_resource_list"
         /\ calls[j].outcome # "ok") =>
            /\ status = "raised"
            /\ j = Len(calls)
            /\ <<calls[j].dataset, "commit">> \in failed
            /\ \A k \in DOMAIN commits :
                  commits[k].dataset # calls[j].dataset
            /\ did_update <=> commits # <<>>

\* C12 witness: the commit of the first dataset of a pass failed, and
\* did_update is still false
C12_Witness ==
    /\ status = "raised"
    /\ ~did_update
    /\ \E j \in DOMAIN calls :
          /\ calls[j].fn = "add_or_update_resource_list"
          /\ calls[j].outcome = "commit_error"

\* C17: in a pass that returned normally every configured dataset was
\* decided once, add_or_update_resource_list was called once for each
\* dataset decided SYNC_NEW or SYNC_UPDATE and never for a dataset decided
\* SKIP; the number of commits is at most the number of datasets, and equal
\* to it when no dataset had a record or when every recorded version
\* differed from the observed one.
C17_OneCommitPerSync ==
    status = "returned" =>
        LET n == Len(Datasets(variant))
            all == SelectSeq(calls,
                      LAMBDA c : c.fn = "add_or_update_resource_list")
        IN  /\ Len(decided) = n
            /\ \A k \in DOMAIN decided :
                  /\ decided[k].dataset = Datasets(variant)[k]
                  /\ Len(CommitCalls(decided[k].dataset)) =
                        IF decided[k].decision \in {"SYNC_NEW", "SYNC_UPDATE"}
                        THEN 1 ELSE 0
            /\ Len(all) <= n
            /\ Len(commits) = Len(all)
            /\ (\/ \A k \in DOMAIN decided : decided[k].recorded = NotFound
                \/ \A k \in DOMAIN decided :
                      decided[k].recorded # decided[k].online)
                  => Len(all) = n

\* C17 witness: a pass returned after one dataset was decided SYNC_UPDATE
\* and committed once and another was decided SKIP
C17_Witness ==
    /\ status = "returned"
    /\ \E j, k \in DOMAIN decided :
          /\ decided[j].decision = "SYNC_UPDATE"
          /\ Len(CommitCalls(decided[j].dataset)) = 1
          /\ decided[k].decision = "SKIP"
          /\ CommitCalls(decided[k].dataset) = <<>>

\* the get_metadata calls the sync path of dataset d is to make, as
\* <<id, metadata_type>>: dataflow by dataset, codelist by every column id,
\* conceptscheme by dataset
ExpectedFetches(d) ==
    << <<d, "dataflow">> >>
        \o [j \in 1..Len(Enumerations(d)) |-> <<Enumerations(d)[j], "codelist">>]
        \o << <<d, "conceptscheme">> >>

\* the directory the primary data of dataset d was fetched into
DataDir(d) ==
    LET got == SelectSeq(calls, LAMBDA c : c.fn = "get_data" /\ c.dataset = d)
    IN  IF got = <<>> THEN "" ELSE got[1].dir

\* C18: in eurostat_collect the get_metadata calls made for a dataset on
\* the sync path are, in this order, one for dataflow keyed by the dataset,
\* one for codelist per column id in the order and with the duplicates of
\* the column list, and one for conceptscheme keyed by the dataset, each
\* into {location}/metadata; when the descriptor is handed to the commit
\* they number 2 plus the number of column ids.
C18_MetadataCallSequence ==
    variant = "eurostat" =>
        \A d \in DatasetSet(variant) :
            LET made == MetadataFetches(d)
                want == ExpectedFetches(d)
                dir == DataDir(d)
            IN  /\ Len(made) <= Len(want)
                /\ \A j \in DOMAIN made :
                      /\ made[j].id = want[j][1]
                      /\ made[j].type = want[j][2]
                      /\ made[j].dir = dir \o "/metadata"
                /\ CommitCalls(d) # <<>> =>
                      /\ Len(made) = 2 + Len(Enumerations(d))
                      /\ dir = SyncLocation(NewDescriptor(variant, d))

\* C18 witness: the dataset whose column list holds the same id twice was
\* committed after four get_metadata calls
C18_Witness ==
    /\ variant = "eurostat"
    /\ \E k \in DOMAIN commits :
          /\ Enumerations(commits[k].dataset) = <<"GEO", "GEO">>
          /\ Len(MetadataFetches(commits[k].dataset)) = 4

\* dataset e follows dataset d in the configured list
Follows(d, e) ==
    \E k \in 1..(Len(Datasets(variant)) - 1) :
        Datasets(variant)[k] = d /\ Datasets(variant)[k + 1] = e

\* the stage of the loop body a call belongs to: 1 the version fetch and
\* what else is read before the lookup, 2 the catalog lookup, 3 the
\* primary-data fetch, 4 an auxiliary metadata fetch, 5 the commit
Stage(c) ==
    IF c.fn = "get_latest_version" THEN 2
    ELSE IF c.fn = "get_data" THEN 3
    ELSE IF c.fn = "get_metadata" /\ c.dir # "." THEN 4
    ELSE IF c.fn = "add_or_update_resource_list" THEN 5
    ELSE 1

At(steps, x) == {k \in DOMAIN steps : steps[k] = x}

\* every occurrence of x comes before every occurrence of y
Before(steps, x, y) == \A j \in At(steps, x), k \in At(steps, y) : j < k

\* C13: get_metadata called with an id that has no row in the index it has
\* just fetched removes {type}.csv and then {type}.xml, logs a warning and
\* no error, and returns normally without the structure-document request
\* and without writing a dim_{id} archive.
C13_NoRowReturnsEarly ==
    (probe.fn = "get_metadata" /\ probe.outcome = "no_row") =>
        LET n == Len(probe.steps)
        IN  /\ ~probe.raised
            /\ n >= 3
            /\ probe.steps[n - 2] = Removed(IndexCsv(probe.type))
            /\ probe.steps[n - 1] = Removed(IndexXml(probe.type))
            /\ probe.steps[n] = "logger.warning"
            /\ At(probe.steps, "logger.error") = {}
            /\ At(probe.steps, "requests.get structureURL") = {}
            /\ At(probe.steps, Written(DimZip(probe.id))) = {}
            /\ cwd[IndexCsv(probe.type)] = NoFile
            /\ cwd[IndexXml(probe.type)] = NoFile
            /\ store = {}

\* C13 witness: get_metadata was called for a column id without a row in
\* the codelist index
C13_Witness ==
    /\ probe.fn = "get_metadata"
    /\ probe.outcome = "no_row"
    /\ probe.type = "codelist"
    /\ probe.id = "GEO"

\* C14: get_datasets_info requests, prettifies, writes {type}.xml and
\* converts, in this order, and stops at the first step that fails: a
\* failed request is raised again, with no file opened and no
\* xml2csv_metadata call; a failed write returns normally with no
\* xml2csv_metadata call; xml2csv_metadata is called only when request and
\* write succeeded, and then exactly once.
C14_DatasetsInfoSteps ==
    probe.fn = "get_datasets_info" =>
        LET st == probe.steps
            xml == IndexXml(probe.type)
        IN  /\ st[1] = "requests.get"
            /\ Before(st, "requests.get", "prettify_data")
            /\ Before(st, "prettify_data", Opened(xml))
            /\ Before(st, Opened(xml), Written(xml))
            /\ Before(st, Written(xml), "xml2csv_metadata")
            /\ probe.outcome = "http_error" =>
                  /\ probe.raised
                  /\ At(st, Opened(xml)) = {}
                  /\ At(st, Written(xml)) = {}
                  /\ At(st, "xml2csv_metadata") = {}
                  /\ cwd[xml] = NoFile
            /\ probe.outcome = "write_error" =>
                  /\ ~probe.raised
                  /\ Cardinality(At(st, Opened(xml))) = 1
                  /\ At(st, "xml2csv_metadata") = {}
            /\ Cardinality(At(st, "xml2csv_metadata")) =
                  IF probe.outcome \in {"http_error", "write_error"} THEN 0 ELSE 1
            /\ probe.outcome = "ok" =>
                  /\ ~probe.raised
                  /\ At(st, Written(xml)) # {}
                  /\ cwd[xml] # NoFile /\ cwd[IndexCsv(probe.type)] # NoFile

\* C14 witness: the write of the index file failed
C14_Witness ==
    /\ probe.fn = "get_datasets_info"
    /\ probe.outcome = "write_error"
    /\ ~probe.raised

\* C15: for a header text YYYY-MM-DDThh:mm:ssZ at root[0][2] of the parsed
\* document get_data_version returns the 8 characters YYYYMMDD, and
\* "20230810" for "2023-08-10T00:00:00Z".
C15_VersionStamp ==
    (probe.fn = "get_data_version" /\ ~probe.raised) =>
        /\ \E y \in Years, mo \in Months, d \in Days, t \in Times :
              /\ probe.doc = Timestamp(y, mo, d, t)
              /\ probe.version = Join(y \o mo \o d)
              /\ Len(y \o mo \o d) = 8
        /\ probe.doc = Prepared1 => probe.version = "20230810"

\* C15 witness: get_data_version returned for the header text
\* "2023-08-10T00:00:00Z"
C15_Witness ==
    /\ probe.fn = "get_data_version"
    /\ ~probe.raised
    /\ probe.doc = Prepared1
    /\ probe.version = "20230810"

\* the places of the Enumeration elements in a document
EnumerationPlaces(body) == {k \in DOMAIN body : body[k].tag = "Enumeration"}

\* C16: the list get_data_columns builds has one entry per Enumeration
\* element of the document, the n-th entry being the id of the first child
\* of the n-th Enumeration element in document order, duplicates included.
C16_ColumnsInDocumentOrder ==
    probe.fn = "findall" =>
        LET places == EnumerationPlaces(probe.body)
        IN  /\ Len(probe.columns) = Cardinality(places)
            /\ \A k \in places :
                  probe.columns[Cardinality({j \in places : j <= k})]
                      = probe.body[k].children[1]

\* C16 witness: a document with two Enumeration elements of the same first
\* child, another element between them, gave that id twice
C16_Witness ==
    /\ probe.fn = "findall"
    /\ Len(probe.body) = 3
    /\ EnumerationPlaces(probe.body) = {1, 3}
    /\ probe.columns = <<"GEO", "GEO">>

\* C20: get_data_version calls get_metadata, then unzip_files, then parses
\* dim_{dataset}.xml. When it returns, its last two steps removed
\* dim_{dataset}.xml and then dim_{dataset}.zip. When the parse fails, on a
\* missing file or on malformed XML, it raises and removes neither file.
\* When get_metadata raises, it raises without unzipping, parsing or
\* removing anything.
C20_VersionFetchSteps ==
    probe.fn = "get_data_version" =>
        LET st == probe.steps
            n == Len(st)
            xml == DimXml(probe.id)
            zip == DimZip(probe.id)
        IN  /\ st[1] = "get_metadata"
            /\ Before(st, "unzip_files", Parsed(xml))
            /\ Before(st, Parsed(xml), Removed(xml))
            /\ Before(st, Removed(xml), Removed(zip))
            /\ \A k \in At(st, "unzip_files") : st[k + 1] = Parsed(xml)
            /\ ~probe.raised =>
                  /\ At(st, Parsed(xml)) # {}
                  /\ st[n - 1] = Removed(xml)
                  /\ st[n] = Removed(zip)
                  /\ cwd[xml] = NoFile /\ cwd[zip] = NoFile
            /\ (probe.raised /\ probe.outcome # Interrupt) =>
                  /\ st[n] = Parsed(xml)
                  /\ At(st, Removed(xml)) = {}
                  /\ At(st, Removed(zip)) = {}
                  /\ probe.outcome = "malformed" =>
                        cwd[xml] = Malformed /\ cwd[zip] = Malformed
            /\ probe.outcome = Interrupt =>
                  /\ probe.raised
                  /\ At(st, "unzip_files") = {}
                  /\ At(st, Parsed(xml)) = {}
                  /\ At(st, Removed(xml)) = {}
                  /\ At(st, Removed(zip)) = {}

\* C20 witness: the document unpacked was not well-formed, the parse
\* raised and both files are still there
C20_Witness ==
    /\ probe.fn = "get_data_version"
    /\ probe.raised
    /\ probe.outcome = "malformed"
    /\ cwd[DimXml(probe.id)] = Malformed
    /\ cwd[DimZip(probe.id)] = Malformed

\* C22: whenever repo.get_latest_version raised for a dataset, whether the
\* catalog held no record or held one (even one equal to the observed
\* version), latest_version is None and the dataset takes the SYNC_NEW
\* branch; the collector never raises at the lookup, the data fetch of that
\* dataset follows, and a pass that returned normally committed the dataset.
C22_LookupFailureIsNoRecord ==
    \A k \in DOMAIN decided :
        decided[k].raised =>
            LET d == decided[k].dataset
            IN  /\ decided[k].latest = None
                /\ decided[k].decision = "SYNC_NEW"
                /\ <<d, "lookup">> \notin failed
                /\ (status = "returned" \/ k < Len(decided)) =>
                      /\ \E j \in SyncCalls(d) : calls[j].fn = "get_data"
                      /\ \E j \in DOMAIN commits : commits[j].dataset = d

\* C22 witness: a pass returned in which the lookup of a dataset raised
\* although the catalog held the observed version, and the dataset was
\* committed
C22_Witness ==
    /\ status = "returned"
    /\ \E k \in DOMAIN decided :
          /\ decided[k].raised
          /\ decided[k].recorded # NotFound
          /\ decided[k].recorded = decided[k].online
          /\ \E j \in DOMAIN commits :
                commits[j].dataset = decided[k].dataset

\* C24: whenever a pass of the eurostat collector has returned normally,
\* and so after every normal return of get_metadata, get_data_description,
\* get_data_version and get_data_columns made in it, the working directory
\* holds none of {type}.csv, {type}.xml, dim_{dataset}.xml and
\* dim_{dataset}.zip.
C24_NoTemporaryFilesLeft ==
    (variant = "eurostat" /\ status = "returned") =>
        \A f \in WorkFiles(variant) : cwd[f] = NoFile

\* C23: whenever get_data_version or get_data_columns returned normally,
\* after any sequence of earlier calls in the same working directory, the
\* get_metadata call made inside it saved the document the server held,
\* and the stamp or the column list was computed from that document and not
\* from a dim_{dataset}.xml or dim_{dataset}.zip an earlier call left.
C23_DerivedFromFetchedDocument ==
    (/\ probe.fn \in {"get_data_version", "get_data_columns"}
     /\ ~probe.raised) =>
        /\ probe.saved
        /\ probe.doc = HeaderText(Prettify(probe.served))
        /\ probe.fn = "get_data_version" =>
              probe.version = VersionOfText(HeaderText(Prettify(probe.served)))

\* C21: processing one dataset reads nothing that was written while
\* processing another: whenever the read_csv of a get_data_version or
\* get_data_columns call opened a conceptscheme.csv that an earlier call
\* had left in the working directory, that earlier call was one for the
\* same dataset.
C21_NoFileOfAnotherDataset ==
    (/\ probe.fn \in {"get_data_version", "get_data_columns"}
     /\ probe.left) =>
        probe.owner = probe.id

\* the decision of the version-gated workflow for a recorded and an
\* observed version, written without reference to a variant
GatedDecision(recorded, observed) ==
    IF recorded \in {NotFound, ""} THEN "SYNC_NEW"
    ELSE IF recorded = observed THEN "SKIP"
    ELSE "SYNC_UPDATE"

\* a version with either variant's sentinel replaced by one common mark
UpToSentinel(version) ==
    IF version \in {"00000000", "YYYY"} THEN "<sentinel>" ELSE version

\* the version the workflow commits, up to the sentinel
GatedVersion(recorded, observed) ==
    IF GatedDecision(recorded, observed) = "SYNC_NEW" /\ observed = ""
    THEN "<sentinel>"
    ELSE UpToSentinel(observed)

====
